---- MODULE Spec2Model ----
(***************************************************************************)
(* Model of jules-scratch/verification/verify_animation_styles.py: one     *)
(* invocation of the script enters sync_playwright(), executes run() one   *)
(* statement after the other and leaves the with block.  The browser, the  *)
(* page under test and the file system are the environment; what the       *)
(* Playwright calls do with them follows the Playwright API the script     *)
(* calls.                                                                  *)
(***************************************************************************)
EXTENDS Integers, Sequences, FiniteSets, TLC

\* Bounds of the model.
MaxRuns == 2        \* successive invocations of the script
WaitBudget == 2     \* polls of an auto-waiting call before it times out
TickMs == 500       \* granularity of the clock during wait_for_timeout

\* Literals of the script.
DelayMs == 1000
FillText == "New Todo Item"
OutputPath == "jules-scratch/verification/verification.png"

\* The states page.wait_for_selector documents for its state argument.
SelectorStates == {"attached", "detached", "visible", "hidden"}

\* The statements of run(), in program order.
Steps ==
  << "launch", "new_page", "goto", "wait_h1", "wait_visible", "wait_enabled",
     "fill", "click", "delay", "screenshot", "close" >>

StepNames == {Steps[i] : i \in 1..Len(Steps)}

IndexOf(s) == CHOOSE i \in 1..Len(Steps) : Steps[i] = s

\* Mutant: browser.close() is called before the screenshot is taken.
StepAfterCloseEarly(s) ==
  CASE s = "delay" -> "close"
    [] s = "close" -> "screenshot"
    [] s = "screenshot" -> "exit"
    [] OTHER -> Steps[IndexOf(s) + 1]

\* The statement that follows statement s; run() returns after the last.
StepAfter(s) ==
  IF IndexOf(s) = Len(Steps) THEN "exit" ELSE Steps[IndexOf(s) + 1]

\* Mutant: the exception is swallowed and run() goes on with the next statement.
OnErrorSwallow(s) == StepAfter(s)

\* No try/except in run(): a raised exception leaves run() and the with block.
OnError(s) == "exit"

\* Mutant: the context manager suppresses the exception (exit status 0).
ExitCodeSuppressed(err) == 0

\* Exit status of the interpreter: 1 on an uncaught exception.
ExitCode(err) == IF err = "none" THEN 0 ELSE 1

\* Mutant: the driver is left without being stopped, the browser stays up.
DriverStopLeak(b) == b

\* Leaving sync_playwright() stops the driver, which ends the browser it runs.
DriverStop(b) == IF b = "open" THEN "closed" ELSE b

\* Mutant: an auto-waiting call polls for ever.
TimedOutNever(w) == FALSE

\* An auto-waiting call gives up when its wait budget is used up.
TimedOut(w) == w >= WaitBudget

\* Mutant: the delay ends as soon as the animation is over.
DelayDoneOnAnimation(e, anim) == e >= DelayMs \/ ~anim

\* wait_for_timeout(1000) returns when 1000 ms have passed, whatever the page does.
DelayDone(e, anim) == e >= DelayMs

\* Mutant: an existing file is kept and a numbered one is written beside it.
WriteFileNumbered(fs, p, c) ==
  IF p \in DOMAIN fs THEN ((p \o "." \o ToString(c.run)) :> c) @@ fs
  ELSE (p :> c) @@ fs

\* page.screenshot(path=p) writes the image to p, replacing what is there.
WriteFile(fs, p, c) == (p :> c) @@ fs

BlankDom == [h1 |-> FALSE, input |-> "absent", enabled |-> FALSE, add |-> FALSE]

Doms ==
  [h1 : BOOLEAN, input : {"absent", "hidden", "visible"},
   enabled : BOOLEAN, add : BOOLEAN]

\* The todo-list UI: heading, visible and enabled title input, Add button.
GoodDom(d) == d.h1 /\ d.input = "visible" /\ d.enabled /\ d.add

VARIABLES
  run,          \* number of invocations started
  pc,           \* "idle", the statement of run() being executed, "exit", "done"
  playwright,   \* the driver: "stopped" or "started"
  browser,      \* "none", "open", "closed"
  page,         \* "none", "blank", "loaded", "closed"
  error,        \* the exception that is propagating, or "none"
  failedAt,     \* the statement that raised it
  exitStatus,   \* -1 while no invocation has ended, else the exit status
  files,        \* the file system: path -> content
  filesBefore,  \* the file system when the invocation started
  writes,       \* files written by the invocation
  trace,        \* statements of run() started by the invocation, in order
  waited,       \* polls done by the auto-waiting call in progress
  elapsed,      \* ms passed in wait_for_timeout
  driverStates, \* states the installed driver accepts in wait_for_selector
  dom,          \* the page under test
  inputValue,   \* text in the title input
  animating,    \* the enter animation is running
  envOk         \* the environment has been the expected one so far

vars ==
  << run, pc, playwright, browser, page, error, failedAt, exitStatus, files,
     filesBefore, writes, trace, waited, elapsed, driverStates, dom,
     inputValue, animating, envOk >>

progVars ==
  << run, playwright, browser, page, exitStatus, files, filesBefore, writes,
     elapsed, driverStates, dom, inputValue, animating >>

\* The installed Playwright is not pinned by the repository.  Released drivers
\* accept SelectorStates; a driver that also took "enabled" is covered as well.
Init ==
  /\ run = 0
  /\ pc = "idle"
  /\ playwright = "stopped"
  /\ browser = "none"
  /\ page = "none"
  /\ error = "none"
  /\ failedAt = "none"
  /\ exitStatus = -1
  /\ files = << >>
  /\ filesBefore = << >>
  /\ writes = 0
  /\ trace = << >>
  /\ waited = 0
  /\ elapsed = 0
  /\ driverStates \in {SelectorStates, SelectorStates \cup {"enabled"}}
  /\ dom = BlankDom
  /\ inputValue = ""
  /\ animating = FALSE
  /\ envOk = TRUE

\* Control passes to statement s (or to the end of the with block).
Go(s) ==
  /\ pc' = s
  /\ trace' = IF s \in StepNames THEN Append(trace, s) ELSE trace
  /\ waited' = 0

\* The statement completes and the next one starts.
Done == Go(StepAfter(pc)) /\ UNCHANGED << error, failedAt >>

\* The statement raises e.
Raise(e) ==
  /\ error' = e
  /\ failedAt' = pc
  /\ Go(OnError(pc))

\* One more poll of an auto-waiting call.
Poll ==
  /\ waited' = IF waited < WaitBudget THEN waited + 1 ELSE waited
  /\ UNCHANGED << pc, trace, error, failedAt >>

\* with sync_playwright() as playwright: run(playwright)
Invoke ==
  /\ pc \in {"idle", "done"}
  /\ run < MaxRuns
  /\ run' = run + 1
  /\ playwright' = "started"
  /\ browser' = "none"
  /\ page' = "none"
  /\ error' = "none"
  /\ failedAt' = "none"
  /\ filesBefore' = files
  /\ writes' = 0
  /\ pc' = "launch"
  /\ trace' = << "launch" >>
  /\ waited' = 0
  /\ elapsed' = 0
  /\ dom' = BlankDom
  /\ inputValue' = ""
  /\ animating' = FALSE
  /\ envOk' = TRUE
  /\ UNCHANGED << exitStatus, files, driverStates >>

\* browser = playwright.chromium.launch(headless=True)
Launch ==
  /\ pc = "launch"
  /\ \E ok \in BOOLEAN :
       IF ok
       THEN browser' = "open" /\ Done /\ UNCHANGED envOk
       ELSE Raise("Error") /\ envOk' = FALSE /\ UNCHANGED browser
  /\ UNCHANGED << run, playwright, page, exitStatus, files, filesBefore,
                  writes, elapsed, driverStates, dom, inputValue, animating >>

\* page = browser.new_page()
NewPage ==
  /\ pc = "new_page"
  /\ page' = "blank"
  /\ Done
  /\ UNCHANGED << run, playwright, browser, exitStatus, files, filesBefore,
                  writes, elapsed, driverStates, dom, inputValue, animating,
                  envOk >>

\* page.goto("http://localhost:5173")
Goto ==
  /\ pc = "goto"
  /\ \E up \in BOOLEAN, d \in Doms :
       IF up
       THEN /\ page' = "loaded"
            /\ dom' = d
            /\ envOk' = GoodDom(d)
            /\ Done
       ELSE /\ Raise("NavigationError")
            /\ envOk' = FALSE
            /\ UNCHANGED << page, dom >>
  /\ UNCHANGED << run, playwright, browser, exitStatus, files, filesBefore,
                  writes, elapsed, driverStates, inputValue, animating >>

\* What page.wait_for_selector(selector, state=st) waits for.
Satisfied(selector, st) ==
  CASE selector = "h1" -> dom.h1
    [] st = "visible" -> dom.input = "visible"
    [] OTHER -> dom.input # "absent" /\ dom.enabled

\* page.wait_for_selector(selector, state=st)
WaitForSelector(selector, st) ==
  /\ IF st \notin driverStates
     THEN Raise("Error")
     ELSE IF Satisfied(selector, st)
          THEN Done
          ELSE IF TimedOut(waited) THEN Raise("TimeoutError") ELSE Poll
  /\ UNCHANGED progVars
  /\ UNCHANGED envOk

\* page.wait_for_selector("h1")
WaitH1 == pc = "wait_h1" /\ WaitForSelector("h1", "visible")

\* page.wait_for_selector(input_selector, state='visible')
WaitVisible == pc = "wait_visible" /\ WaitForSelector("title", "visible")

\* page.wait_for_selector(input_selector, state='enabled')
WaitEnabled == pc = "wait_enabled" /\ WaitForSelector("title", "enabled")

\* page.locator(input_selector).fill("New Todo Item")
Fill ==
  /\ pc = "fill"
  /\ IF dom.input = "visible" /\ dom.enabled
     THEN inputValue' = FillText /\ Done
     ELSE /\ IF TimedOut(waited) THEN Raise("TimeoutError") ELSE Poll
          /\ UNCHANGED inputValue
  /\ UNCHANGED << run, playwright, browser, page, exitStatus, files,
                  filesBefore, writes, elapsed, driverStates, dom, animating,
                  envOk >>

\* page.get_by_role('button', name='Add').click()
Click ==
  /\ pc = "click"
  /\ IF dom.add
     THEN /\ animating' = TRUE
          /\ inputValue' \in {"", inputValue}
          /\ Done
     ELSE /\ IF TimedOut(waited) THEN Raise("TimeoutError") ELSE Poll
          /\ UNCHANGED << animating, inputValue >>
  /\ UNCHANGED << run, playwright, browser, page, exitStatus, files,
                  filesBefore, writes, elapsed, driverStates, dom, envOk >>

\* page.wait_for_timeout(1000)
Delay ==
  /\ pc = "delay"
  /\ IF DelayDone(elapsed, animating)
     THEN Done /\ UNCHANGED elapsed
     ELSE /\ elapsed' = elapsed + TickMs
          /\ UNCHANGED << pc, trace, waited, error, failedAt >>
  /\ UNCHANGED << run, playwright, browser, page, exitStatus, files,
                  filesBefore, writes, driverStates, dom, inputValue,
                  animating, envOk >>

\* page.screenshot(path="jules-scratch/verification/verification.png")
Screenshot ==
  /\ pc = "screenshot"
  /\ \E ok \in BOOLEAN :
       IF ok /\ page = "loaded"
       THEN /\ files' = WriteFile(files, OutputPath,
                                  [run |-> run, animating |-> animating])
            /\ writes' = writes + 1
            /\ Done
            /\ UNCHANGED envOk
       ELSE /\ Raise("Error")
            /\ envOk' = FALSE
            /\ UNCHANGED << files, writes >>
  /\ UNCHANGED << run, playwright, browser, page, exitStatus, filesBefore,
                  elapsed, driverStates, dom, inputValue, animating >>

\* browser.close()
Close ==
  /\ pc = "close"
  /\ browser' = "closed"
  /\ page' = "closed"
  /\ Done
  /\ UNCHANGED << run, playwright, exitStatus, files, filesBefore, writes,
                  elapsed, driverStates, dom, inputValue, animating, envOk >>

\* The with block is left (run() returned or raised) and the process ends.
PlaywrightExit ==
  /\ pc = "exit"
  /\ playwright' = "stopped"
  /\ browser' = DriverStop(browser)
  /\ page' = IF page \in {"blank", "loaded"} THEN "closed" ELSE page
  /\ exitStatus' = ExitCode(error)
  /\ pc' = "done"
  /\ UNCHANGED << run, error, failedAt, files, filesBefore, writes, trace,
                  waited, elapsed, driverStates, dom, inputValue, animating,
                  envOk >>

\* The application changes the page while the script runs.
PageChanges ==
  /\ page = "loaded"
  /\ pc \in StepNames
  /\ \E d \in Doms :
       /\ d # dom
       /\ dom' = d
       /\ envOk' = (envOk /\ GoodDom(d))
  /\ UNCHANGED << run, pc, playwright, browser, page, error, failedAt,
                  exitStatus, files, filesBefore, writes, trace, waited,
                  elapsed, driverStates, inputValue, animating >>

\* The enter animation of the new todo item comes to its end.
AnimationEnds ==
  /\ page = "loaded"
  /\ animating
  /\ animating' = FALSE
  /\ UNCHANGED << run, pc, playwright, browser, page, error, failedAt,
                  exitStatus, files, filesBefore, writes, trace, waited,
                  elapsed, driverStates, dom, inputValue, envOk >>

\* The steps of one invocation.
RunnerStep ==
  \/ Launch
  \/ NewPage
  \/ Goto
  \/ WaitH1
  \/ WaitVisible
  \/ WaitEnabled
  \/ Fill
  \/ Click
  \/ Delay
  \/ Screenshot
  \/ Close
  \/ PlaywrightExit

Next ==
  \/ Invoke
  \/ RunnerStep
  \/ PageChanges
  \/ AnimationEnds

Spec == Init /\ [][Next]_vars

\* The interpreter and the driver keep running the invocation.
FairSpec == Spec /\ WF_vars(RunnerStep)

InTrace(s) == \E i \in 1..Len(trace) : trace[i] = s

StrictDriver == driverStates = SelectorStates

\* C1: when the invocation has ended, on the success path and on every
\* failure path, the browser launched by it is no longer held and the driver
\* is stopped.
BrowserReleasedAtExit ==
  pc = "done" => browser # "open" /\ playwright = "stopped"

\* A run that failed after launch, where browser.close() was never reached.
BrowserReleasedAfterFailure ==
  /\ pc = "done"
  /\ StrictDriver
  /\ failedAt = "goto"
  /\ ~InTrace("close")
  /\ browser = "closed"

\* C2: a failure of navigation, of a wait, of fill or of click ends the run
\* with the screenshot statement never started and the file system as it was
\* when the invocation started.
FailedRunKeepsFile ==
  failedAt \in {"goto", "wait_h1", "wait_visible", "wait_enabled", "fill", "click"}
    => /\ ~InTrace("screenshot")
       /\ writes = 0
       /\ files = filesBefore

\* The heading never appeared: the second invocation ended on TimeoutError.
HeadingTimeoutKeepsFile ==
  /\ pc = "done"
  /\ StrictDriver
  /\ run = 2
  /\ failedAt = "wait_h1"
  /\ error = "TimeoutError"
  /\ files = filesBefore

\* C3: an invocation against a running server that serves the todo-list UI
\* all along (and a browser that launches, a disk that can be written) ends
\* without error and with the output file written by that invocation.
GoodServerRunSucceeds ==
  pc = "done" /\ envOk
    => /\ error = "none"
       /\ OutputPath \in DOMAIN files
       /\ files[OutputPath].run = run

ErrorsPropagate ==
  /\ error # "none"
       => pc \in {"exit", "done"} /\ trace[Len(trace)] = failedAt
  /\ pc = "done" /\ error # "none" => exitStatus # 0
  /\ pc = "done" /\ error = "none" => exitStatus = 0

\* The server was down: NavigationError, nothing after goto, exit status 1.
NavigationErrorExit ==
  /\ pc = "done"
  /\ StrictDriver
  /\ error = "NavigationError"
  /\ trace = << "launch", "new_page", "goto" >>
  /\ exitStatus = 1

InputReady == dom.input # "absent" /\ dom.enabled

\* C7: fill starts only after the wait for the input has succeeded; that wait
\* fails only with TimeoutError and only when the input is not present and
\* enabled, and then neither fill nor click is started.
InputWaitExact ==
  /\ InTrace("fill") => InTrace("wait_enabled") /\ failedAt # "wait_enabled"
  /\ pc = "exit" /\ failedAt \in {"wait_visible", "wait_enabled"}
       => /\ error = "TimeoutError"
          /\ ~InputReady
          /\ ~InTrace("fill")
          /\ ~InTrace("click")

\* C8: the statements a run has started are an initial part of the fixed
\* sequence (in order, none skipped, none twice), and a statement is being
\* executed only while no earlier one has failed.
StepsInOrder ==
  /\ Len(trace) <= Len(Steps)
  /\ \A i \in 1..Len(trace) : trace[i] = Steps[i]
  /\ pc \in StepNames => trace[Len(trace)] = pc /\ error = "none"

\* A run that went through the first six statements, in order, and stopped.
SixStepsThenStop ==
  /\ pc = "done"
  /\ StrictDriver
  /\ trace = SubSeq(Steps, 1, 6)
  /\ failedAt = "wait_enabled"

\* C9: an invocation that has started ends.
Terminates == (pc \in StepNames \cup {"exit"}) ~> (pc = "done")

\* A wait used up its budget on an element that was not there.
WaitTimedOut ==
  /\ pc = "done"
  /\ StrictDriver
  /\ error = "TimeoutError"
  /\ failedAt = "wait_visible"
  /\ waited = 0

====
